---- MODULE Spec2Model ----
(***************************************************************************)
(* Model of geophys_utils.NetCDFPointUtils                                 *)
(* (src/geophys_utils/_netcdf_point_utils.py): the coordinate cache, the   *)
(* spatial mask, bounds reprojection, the nearest-neighbour query with its *)
(* cached / ephemeral KD-trees, the gridding of points, the chunked copy   *)
(* fetch_array and the construction of an instance.                        *)
(*                                                                         *)
(* Conventions                                                             *)
(*  - Coordinates are integers, in hundredths of the CRS unit, so that     *)
(*    the halves and fiftieths the code takes of multiples of the grid     *)
(*    resolution are integers too.  Point indices are 0-based as in numpy; *)
(*    TLA+ sequences are 1-based, so dataset point i is xycoords[i + 1].   *)
(*  - Distances are carried SQUARED (dist2): the value v stands for the    *)
(*    Euclidean distance sqrt(v); comparing v with d*d is comparing the    *)
(*    distance with d (for d >= 0).  Inf stands for numpy.inf.             *)
(*  - A Python optional argument is None (the empty tuple) or Some(v).     *)
(*    A CRS (wkt) is a string; WktNone stands for a wkt of None.           *)
(***************************************************************************)
EXTENDS Integers, Sequences, FiniteSets

VARIABLES
    xycoords,     \* self.xycoords: the coordinate cache, a sequence of <<x, y>>
    point_count,  \* self.point_count
    bounds,       \* self.bounds = [min_lon, min_lat, max_lon, max_lat]
    kdtree,       \* self.kdtree: NoTree is None, else the tree built (its data)
    call,         \* the operation that has just run, with its arguments; Idle
                  \* once the caller has taken its result
    ret,          \* what that call returned (or the exception it raised)
    effects,      \* what that call did: transform_coords calls, masks,
                  \* interpolations, trees built
    remembered,   \* history: an earlier get_spatial_mask call and its result
                  \* (None under the specifications that keep no history)
    netcdf_dataset \* self.netcdf_dataset: the point dimension's length and the
                  \* longitude and latitude variables (None when absent)

vars ==
    <<xycoords, point_count, bounds, kdtree, call, ret, effects, remembered,
      netcdf_dataset>>

----------------------------------------------------------------------------
(* Bounds of the model *)

\* number of points of the dataset
PointCount == 2

\* points_required ranges over 1..MaxK
MaxK == 2

\* max_distance ranges over None and 0, 100, .. 100 * MaxDist
MaxDist == 1

\* numpy.inf, as a squared distance: larger than any dist2 of the model
Inf == 1000000

\* numpy.nan, an ordinate that is not a number: no ordinate of the model
\* has this value
NaN == -999999

\* a source array handed to fetch_array has 0..MaxLen elements
MaxLen == 5

\* self.max_bytes ranges over 1..MaxBytes
MaxBytes == 3

----------------------------------------------------------------------------
(* Python values *)

None == <<>>
Some(v) == <<v>>
Val(o) == o[1]

WktNone == "None"
\* self.wkt, the dataset's native CRS
NativeWkt == "EPSG:4283"
\* a CRS other than the native one
OtherWkt == "EPSG:28353"
Wkts == {WktNone, NativeWkt, OtherWkt}

\* positions a point of the dataset, or a query coordinate, may have
Positions == {<<0, 0>>, <<100, 0>>, <<100, 100>>}

\* rectangles (min_x, min_y, max_x, max_y) handed to the mask / bounds operations
Rects == {<<0, 0, 100, 100>>, <<0, 0, 0, 0>>, <<100, 0, 100, 100>>,
          <<0, 100, 200, 200>>, <<50, 50, 150, 250>>, <<100, 100, 0, 0>>}

Min(S) == CHOOSE m \in S : \A e \in S : m <= e
Max(S) == CHOOSE m \in S : \A e \in S : m >= e

----------------------------------------------------------------------------
(* The CRS reprojector, geophys_utils._crs_utils.transform_coords: the      *)
(* identity when both CRSs are the same, else a map that is neither         *)
(* monotonic nor exactly invertible: native -> other is the rotation and    *)
(* scaling (x, y) |-> (x - y, x + y), other -> native its rounded inverse.  *)

transform_point(p, from_wkt, to_wkt) ==
    IF from_wkt = to_wkt THEN p
    ELSE IF to_wkt = OtherWkt THEN <<p[1] - p[2], p[1] + p[2]>>
    ELSE <<(p[1] + p[2]) \div 2, (p[2] - p[1]) \div 2>>

\* transform_coords over a sequence of coordinate pairs
transform_coords(coords, from_wkt, to_wkt) ==
    [i \in 1..Len(coords) |-> transform_point(coords[i], from_wkt, to_wkt)]

----------------------------------------------------------------------------
(* get_spatial_mask *)

\* mutant of mask_coordinates: reads the cached tree's data once there is one
mask_coordinates_from_tree(bounds_wkt) ==
    LET coords == IF kdtree.built THEN kdtree.data ELSE xycoords
    IN  IF bounds_wkt = WktNone THEN coords
        ELSE transform_coords(coords, NativeWkt, bounds_wkt)

\* the coordinates the mask compares: the cache itself, or the cache
\* transformed into bounds_wkt
mask_coordinates(bounds_wkt) ==
    IF bounds_wkt = WktNone THEN xycoords
    ELSE transform_coords(xycoords, NativeWkt, bounds_wkt)

\* mutant of in_bounds: the rectangle is half-open, its max edges excluded
in_bounds_half_open(b, c) ==
    (b[1] <= c[1] /\ c[1] < b[3]) /\ (b[2] <= c[2] /\ c[2] < b[4])

\* the comparison of one coordinate pair against the rectangle b
in_bounds(b, c) ==
    (b[1] <= c[1] /\ c[1] <= b[3]) /\ (b[2] <= c[2] /\ c[2] <= b[4])

get_spatial_mask(b, bounds_wkt) ==
    LET coordinates == mask_coordinates(bounds_wkt)
    IN  [i \in 1..Len(coordinates) |-> in_bounds(b, coordinates[i])]

\* transform_coords calls get_spatial_mask makes
mask_transforms(bounds_wkt) == IF bounds_wkt = WktNone THEN 0 ELSE 1

----------------------------------------------------------------------------
(* get_reprojected_bounds *)

\* mutant of bounds_unchanged: equal CRSs are not recognised
bounds_unchanged_only_if_none(from_wkt, to_wkt) ==
    (to_wkt = WktNone) \/ (from_wkt = WktNone)

\* the early return: nothing to reproject
bounds_unchanged(from_wkt, to_wkt) ==
    (to_wkt = WktNone) \/ (from_wkt = WktNone) \/ (to_wkt = from_wkt)

\* mutant of original_bounding_box: only the LL and UR corners
diagonal_corners(b) == << <<b[1], b[2]>>, <<b[3], b[4]>> >>

\* all four corners of the rectangle, not just LL and UR
original_bounding_box(b) ==
    << <<b[1], b[2]>>, <<b[3], b[2]>>, <<b[3], b[4]>>, <<b[1], b[4]>> >>

\* [min x, min y, max x, max y] over a sequence of points
envelope(pts) ==
    LET xs == {pts[i][1] : i \in 1..Len(pts)}
        ys == {pts[i][2] : i \in 1..Len(pts)}
    IN  <<Min(xs), Min(ys), Max(xs), Max(ys)>>

get_reprojected_bounds(b, from_wkt, to_wkt) ==
    IF bounds_unchanged(from_wkt, to_wkt) THEN b
    ELSE envelope(transform_coords(original_bounding_box(b), from_wkt, to_wkt))

\* transform_coords calls get_reprojected_bounds makes
reproject_transforms(from_wkt, to_wkt) ==
    IF bounds_unchanged(from_wkt, to_wkt) THEN 0 ELSE 1

----------------------------------------------------------------------------
(* numpy and scipy.spatial.cKDTree, as nearest_neighbours uses them *)

\* squared Euclidean distance
dist2(p, q) == (p[1] - q[1]) * (p[1] - q[1]) + (p[2] - q[2]) * (p[2] - q[2])

\* np.where(mask)[0]: the 0-based indices of the true elements, ascending
where(mask) ==
    LET F[i \in 0..Len(mask)] ==
            IF i = 0 THEN <<>>
            ELSE IF mask[i] THEN Append(F[i - 1], i - 1) ELSE F[i - 1]
    IN  F[Len(mask)]

logical_and(a, b) == [i \in 1..Len(a) |-> a[i] /\ b[i]]

\* arr[indices] for a sequence of in-range 0-based indices
take(arr, indices) == [j \in 1..Len(indices) |-> arr[indices[j] + 1]]

\* cKDTree(data=...): a tree is its data, in the order given (local index j
\* of the tree is data[j + 1])
cKDTree(data) == [built |-> TRUE, data |-> data]

\* self.kdtree = None
NoTree == [built |-> FALSE, data |-> <<>>]

\* kdtree.query(x, k, distance_upper_bound): the k nearest points strictly
\* nearer than the upper bound, nearest first; a missing neighbour has
\* distance inf and index n (the tree's size); k = 1 gives scalars.  The
\* order among equidistant points is implementation-defined: every order is
\* a possible result.
kdtree_query(tree, x, k, upper2) ==
    LET n == Len(tree.data)
        d2(j) == dist2(tree.data[j + 1], x)
        near == {j \in 0..(n - 1) : d2(j) < upper2}
        m == Cardinality(near)
        orders == {s \in [1..m -> near] :
                      /\ \A a, b \in 1..m : a # b => s[a] # s[b]
                      /\ \A a \in 1..(m - 1) : d2(s[a]) <= d2(s[a + 1])}
    IN  {[distances |-> [i \in 1..k |-> IF i <= m THEN d2(s[i]) ELSE Inf],
          indices   |-> [i \in 1..k |-> IF i <= m THEN s[i] ELSE n],
          scalar    |-> (k = 1)] : s \in orders}

----------------------------------------------------------------------------
(* nearest_neighbours *)

\* (mutant) a query that takes the unbounded branch whatever max_distance is
max_distance_never_given(max_distance) == FALSE

\* "if max_distance:": None and 0 are both false
max_distance_given(max_distance) ==
    max_distance # None /\ Val(max_distance) # 0

\* the square window handed to get_spatial_mask
search_window(c, d) == <<c[1] - d, c[2] - d, c[1] + d, c[2] + d>>

\* the points the ephemeral tree is built over
point_indices(spatial_mask, secondary_mask) ==
    where(logical_and(spatial_mask, secondary_mask))

\* the data of the cached tree
cached_tree_data(secondary_mask) == take(xycoords, where(secondary_mask))

\* mutant of cached_tree_missing: the cached tree is rebuilt on every call
cached_tree_always_missing(tree) == TRUE

\* "if not self.kdtree:"
cached_tree_missing(tree) == ~tree.built

\* the index array the bounded path looks the local indices up in
index_mapping(spatial_mask, secondary_mask) == where(spatial_mask)

\* mapping[indices] raises IndexError on an index past the end
index_in_range(mapping, indices) ==
    \A j \in 1..Len(indices) : indices[j] < Len(mapping)

\* What a call did: the transform_coords calls, spatial masks and griddata
\* interpolations it made, and whether it built the cached or an ephemeral tree.
Effects(transforms, masks, interpolations, cached_built, ephemeral_built) ==
    [transforms |-> transforms, masks |-> masks, interpolations |-> interpolations,
     cached_built |-> cached_built, ephemeral_built |-> ephemeral_built]

Raised(exception) ==
    [status |-> exception, distances |-> <<>>, indices |-> <<>>, scalar |-> FALSE]

Returned(distances, indices, scalar) ==
    [status |-> "ok", distances |-> distances, indices |-> indices, scalar |-> scalar]

\* The outcomes of one call: what it returns, self.kdtree after it, and what
\* it did on the way.
nearest_neighbours(coordinates, wkt, points_required, max_distance, secondary_mask) ==
    LET transforms == IF wkt # WktNone THEN 1 ELSE 0
        reprojected_coords ==
            IF wkt # WktNone THEN transform_point(coordinates, wkt, NativeWkt)
            ELSE coordinates
        mask == IF secondary_mask = None THEN [i \in 1..point_count |-> TRUE]
                ELSE Val(secondary_mask)
    IN  IF Len(mask) # point_count
        THEN {[ret |-> Raised("AssertionError"), kdtree |-> kdtree,
               effects |-> Effects(transforms, 0, 0, FALSE, FALSE)]}
        ELSE IF max_distance_given(max_distance)
        THEN LET d == Val(max_distance)
                 spatial_mask ==
                     get_spatial_mask(search_window(reprojected_coords, d), WktNone)
                 indices == point_indices(spatial_mask, mask)
                 tree == cKDTree(take(xycoords, indices))
                 mapping == index_mapping(spatial_mask, mask)
             IN  IF Len(indices) = 0
                 THEN {[ret |-> Returned(<<>>, <<>>, FALSE), kdtree |-> kdtree,
                        effects |-> Effects(transforms, 1, 0, FALSE, FALSE)]}
                 ELSE {[ret |-> IF index_in_range(mapping, r.indices)
                                THEN Returned(r.distances, take(mapping, r.indices),
                                              r.scalar)
                                ELSE Raised("IndexError"),
                        kdtree |-> kdtree,
                        effects |-> Effects(transforms, 1, 0, FALSE, TRUE)] :
                       r \in kdtree_query(tree, reprojected_coords,
                                          points_required, d * d)}
        ELSE LET build == cached_tree_missing(kdtree)
                 tree == IF build THEN cKDTree(cached_tree_data(mask)) ELSE kdtree
             IN  {[ret |-> Returned(r.distances, r.indices, r.scalar),
                   kdtree |-> tree,
                   effects |-> Effects(transforms, 0, 0, build, FALSE)] :
                  r \in kdtree_query(tree, reprojected_coords, points_required, Inf)}

----------------------------------------------------------------------------
(* grid_points *)

\* self.point_variables: the dataset's per-point data variables
point_variables == <<"mag", "grav">>

\* self.netcdf_dataset.variables[var_name][...]: the per-point values
variable_values(var_name) ==
    [i \in 1..point_count |-> IF var_name = "mag" THEN 10 * i ELSE 500 + i]

\* the "variables" argument: None, one name, or a list of names
NoVariables == [type |-> "NoneType", names |-> <<>>]
OneVariable(var_name) == [type |-> "str", names |-> <<var_name>>]
VariableList(names) == [type |-> "list", names |-> names]

\* scipy.interpolate.griddata raises when given no point at all (there is
\* nothing to look up or to triangulate), and, for the triangulating
\* methods, when the points do not span the plane
collinear(points) ==
    \A a, b, c \in 1..Len(points) :
        (points[b][1] - points[a][1]) * (points[c][2] - points[a][2])
            = (points[c][1] - points[a][1]) * (points[b][2] - points[a][2])

griddata_fails(points, method) ==
    Len(points) = 0 \/ (method # "nearest" /\ collinear(points))

\* The interpolated grid, uninterpreted: the mesh it is computed on and the
\* points, values and method it is computed from.
griddata(points, values, grid_y, grid_x, method) ==
    [grid_y |-> grid_y, grid_x |-> grid_x, points |-> points, values |-> values,
     method |-> method]

\* math.floor(b / r) * r
snap_down(b, r) == (b \div r) * r

\* math.floor(b / r - 1.0) * r + r
snap_up(b, r) == ((b \div r) - 1) * r + r

pixel_centre_bounds(b, r) ==
    <<snap_down(b[1], r), snap_down(b[2], r), snap_up(b[3], r), snap_up(b[4], r)>>

grid_size(pcb) == <<pcb[3] - pcb[1], pcb[4] - pcb[2]>>

expanded_grid_bounds(pcb) ==
    <<pcb[1] - grid_size(pcb)[1] \div 50,
      pcb[2] - grid_size(pcb)[1] \div 50,
      pcb[3] + grid_size(pcb)[2] \div 50,
      pcb[4] + grid_size(pcb)[2] \div 50>>

\* the length of np.mgrid[start : start + extent + r/2 : r]
mesh_length(extent, r) ==
    IF 2 * extent + r <= 0 THEN 0 ELSE (2 * extent + r + 2 * r - 1) \div (2 * r)

\* np.mgrid's y values, from max_y downwards, and x values, from min_x upwards
mesh_y(pcb, r) == [j \in 1..mesh_length(pcb[4] - pcb[2], r) |-> pcb[4] - (j - 1) * r]
mesh_x(pcb, r) == [j \in 1..mesh_length(pcb[3] - pcb[1], r) |-> pcb[1] + (j - 1) * r]

\* point_subset_mask[0:-1:point_step] = True
decimation_mask(point_step) ==
    [i \in 1..point_count |-> (i - 1) < point_count - 1 /\ (i - 1) % point_step = 0]

\* coordinates[:, ::-1]
yx(coordinates) ==
    [i \in 1..Len(coordinates) |-> <<coordinates[i][2], coordinates[i][1]>>]

\* (mutant) a geotransform whose origin is the first pixel's centre
geotransform_at_pixel_centre(pcb, r) == <<pcb[1], r, 0, pcb[4], 0, 0 - r>>

geotransform(pcb, r) == <<pcb[1] - r \div 2, r, 0, pcb[4] + r \div 2, 0, 0 - r>>

\* (mutant) a call that never objects to its bounds arguments
both_bounds_never_given(native_grid_bounds, reprojected_grid_bounds) == FALSE

\* native_grid_bounds and reprojected_grid_bounds (both truthy)
both_bounds_given(native_grid_bounds, reprojected_grid_bounds) ==
    native_grid_bounds # None /\ reprojected_grid_bounds # None

GridRaised(exception) == [status |-> exception]

\* (mutant) a lookup that fails for the first name only
unknown_first_variable(names) ==
    names[1] \notin {point_variables[i] : i \in 1..Len(point_variables)}

\* [self.netcdf_dataset.variables[var_name] for var_name in variables] raises
\* KeyError for a name that is no variable of the dataset; the list is built
\* before any variable is interpolated
unknown_variable(names) ==
    \E i \in 1..Len(names) :
        names[i] \notin {point_variables[j] : j \in 1..Len(point_variables)}

\* What one call returns, and what it did on the way.
grid_points(grid_resolution, variables, native_grid_bounds, reprojected_grid_bounds, resampling_method, grid_wkt, point_step) ==
    IF both_bounds_given(native_grid_bounds, reprojected_grid_bounds)
    THEN [ret |-> GridRaised("AssertionError"),
          effects |-> Effects(0, 0, 0, FALSE, FALSE)]
    ELSE
    LET names == IF Len(variables.names) = 0 THEN point_variables ELSE variables.names
        single_var == variables.type = "str"
        native_given == native_grid_bounds # None
        reprojected_given == reprojected_grid_bounds # None
        grid_bounds ==
            IF native_given
            THEN get_reprojected_bounds(Val(native_grid_bounds), NativeWkt, grid_wkt)
            ELSE IF reprojected_given THEN Val(reprojected_grid_bounds)
            ELSE bounds
        bounds_transforms ==
            IF native_given THEN reproject_transforms(NativeWkt, grid_wkt)
            ELSE IF reprojected_given THEN reproject_transforms(grid_wkt, NativeWkt)
            ELSE 0
        pcb == pixel_centre_bounds(grid_bounds, grid_resolution)
        spatial_subset_mask ==
            get_spatial_mask(
                get_reprojected_bounds(expanded_grid_bounds(pcb), grid_wkt, NativeWkt),
                WktNone)
        grid_y == mesh_y(pcb, grid_resolution)
        grid_x == mesh_x(pcb, grid_resolution)
        point_subset_mask ==
            logical_and(spatial_subset_mask, decimation_mask(point_step))
        native_coordinates == take(xycoords, where(point_subset_mask))
        coordinates ==
            IF grid_wkt # WktNone
            THEN transform_coords(native_coordinates, NativeWkt, grid_wkt)
            ELSE native_coordinates
        transforms ==
            bounds_transforms + reproject_transforms(grid_wkt, NativeWkt)
                + (IF grid_wkt # WktNone THEN 1 ELSE 0)
        grid_of(var_name) ==
            griddata(yx(coordinates),
                     take(variable_values(var_name), where(point_subset_mask)),
                     grid_y, grid_x, resampling_method)
        grids == [var_name \in {names[i] : i \in 1..Len(names)} |-> grid_of(var_name)]
    IN  IF unknown_variable(names)
        THEN [ret |-> GridRaised("KeyError"),
              effects |-> Effects(transforms, 1, 0, FALSE, FALSE)]
        ELSE IF griddata_fails(yx(coordinates), resampling_method)
        THEN [ret |-> GridRaised("GriddataError"),
              effects |-> Effects(transforms, 1, 1, FALSE, FALSE)]
        ELSE [ret |-> [status |-> "ok",
                       single |-> single_var,
                       grids |-> IF single_var THEN grid_of(names[1]) ELSE grids,
                       wkt |-> IF grid_wkt # WktNone THEN grid_wkt ELSE NativeWkt,
                       geotransform |-> geotransform(pcb, grid_resolution)],
              effects |-> Effects(transforms, 1, Len(names), FALSE, FALSE)]

----------------------------------------------------------------------------
(* fetch_array *)

\* max(source_array[0].itemsize * source_len // self.max_bytes, 1)
pieces_required(itemsize, source_len, max_bytes) ==
    Max({(itemsize * source_len) \div max_bytes, 1})

\* source_len // pieces_required
max_elements(itemsize, source_len, max_bytes) ==
    source_len \div pieces_required(itemsize, source_len, max_bytes)

\* np.zeros((source_len,), dtype=source_array.dtype)
zeros(source_len) == [i \in 1..source_len |-> 0]

\* min(start_index + max_elements, source_len)
end_index(start_index, elements, source_len) ==
    Min({start_index + elements, source_len})

\* cache_array[array_slice] = source_array[array_slice], for the slice
\* start_index:end_index (0-based, end exclusive)
copy_slice(cache_array, source_array, start_index, end) ==
    [i \in 1..Len(cache_array) |->
        IF start_index < i /\ i <= end THEN source_array[i] ELSE cache_array[i]]

\* (mutant) a loop that leaves one element out between two slices
next_start_index_skipping(start_index, elements) == start_index + elements + 1

\* start_index += max_elements
next_start_index(start_index, elements) == start_index + elements

\* fetch_array as a function of its inputs: the array the loop above leaves
\* in cache_array
RECURSIVE copy_loop(_, _, _, _)
copy_loop(cache_array, source_array, start_index, elements) ==
    IF start_index >= Len(source_array)
    THEN cache_array
    ELSE copy_loop(copy_slice(cache_array, source_array, start_index,
                              end_index(start_index, elements, Len(source_array))),
                   source_array, next_start_index(start_index, elements), elements)

\* (mutant) a fetch_array that copies an array without elements
fetch_array_accepting_empty(source_array, itemsize, max_bytes) ==
    LET source_len == Len(source_array)
        elements == max_elements(itemsize, source_len, max_bytes)
    IN  IF source_len = 0 THEN [status |-> "ok", value |-> <<>>]
        ELSE IF elements = 0 THEN [status |-> "never"]
        ELSE [status |-> "ok",
              value |-> copy_loop(zeros(source_len), source_array, 0, elements)]

\* What a call of fetch_array comes to: source_array[0] raises IndexError for
\* an array without elements; with max_elements = 0 the loop never ends
\* ("never"); else the copy is returned.
fetch_array(source_array, itemsize, max_bytes) ==
    LET source_len == Len(source_array)
        elements == max_elements(itemsize, source_len, max_bytes)
    IN  IF source_len = 0 THEN [status |-> "IndexError"]
        ELSE IF elements = 0 THEN [status |-> "never"]
        ELSE [status |-> "ok",
              value |-> copy_loop(zeros(source_len), source_array, 0, elements)]

----------------------------------------------------------------------------
(* __init__ *)

\* a netCDF dataset: the length of its point dimension and its longitude and
\* latitude variables, each None when the dataset has no such variable
Dataset(point, longitude, latitude) ==
    [point |-> point, longitude |-> longitude, latitude |-> latitude]

isnan(v) == v = NaN

\* the values that are numbers
valid_values(values) == {values[i] : i \in 1..Len(values)} \ {NaN}

\* (mutant) np.min: one not-a-number value makes the minimum not-a-number
min_propagating_nan(values) ==
    IF \E i \in 1..Len(values) : isnan(values[i]) THEN NaN
    ELSE Min({values[i] : i \in 1..Len(values)})

\* np.nanmin, np.nanmax: not-a-number values are ignored; for a column of
\* nothing else the result is not-a-number
nanmin(values) ==
    IF valid_values(values) = {} THEN NaN ELSE Min(valid_values(values))

nanmax(values) ==
    IF valid_values(values) = {} THEN NaN ELSE Max(valid_values(values))

\* (mutant) a cache with its two columns the other way round
cache_coordinates_swapped(longitude, latitude) ==
    [i \in 1..Len(longitude) |-> <<latitude[i], longitude[i]>>]

\* self.xycoords[:,0] = longitude, self.xycoords[:,1] = latitude
cache_coordinates(longitude, latitude) ==
    [i \in 1..Len(longitude) |-> <<longitude[i], latitude[i]>>]

column(coords, k) == [i \in 1..Len(coords) |-> coords[i][k]]

\* [[min_lon, min_lat], [max_lon, min_lat], [max_lon, max_lat], [min_lon, max_lat]]
native_bbox(min_lon, min_lat, max_lon, max_lat) ==
    <<<<min_lon, min_lat>>, <<max_lon, min_lat>>, <<max_lon, max_lat>>,
      <<min_lon, max_lat>>>>

\* an instance that does not exist (yet): its fields have no value
Unset == <<>>

Constructed(coords, count, b, bbox) ==
    [ret |-> [status |-> "ok", native_bbox |-> bbox],
     xycoords |-> coords, point_count |-> count, bounds |-> b,
     effects |-> Effects(1, 0, 0, FALSE, FALSE)]

\* Construction that raises, or that never returns: the caller gets no
\* instance, whatever fields had been assigned by then.
NotConstructed(status) ==
    [ret |-> IF status = "never" THEN [status |-> "none"] ELSE [status |-> status],
     xycoords |-> Unset, point_count |-> 0, bounds |-> Unset,
     effects |-> Effects(0, 0, 0, FALSE, FALSE)]

\* What constructing an instance over a dataset comes to.
construct(dataset, itemsize, max_bytes) ==
    IF dataset.longitude = None THEN NotConstructed("KeyError")
    ELSE
    LET longitude == fetch_array(Val(dataset.longitude), itemsize, max_bytes)
    IN  IF longitude.status # "ok" THEN NotConstructed(longitude.status)
        ELSE IF dataset.latitude = None THEN NotConstructed("KeyError")
        ELSE
        LET latitude == fetch_array(Val(dataset.latitude), itemsize, max_bytes)
        IN  IF latitude.status # "ok" THEN NotConstructed(latitude.status)
            ELSE
            LET coords == cache_coordinates(longitude.value, latitude.value)
                min_lon == nanmin(column(coords, 1))
                max_lon == nanmax(column(coords, 1))
                min_lat == nanmin(column(coords, 2))
                max_lat == nanmax(column(coords, 2))
            IN  Constructed(coords, dataset.point,
                            <<min_lon, min_lat, max_lon, max_lat>>,
                            native_bbox(min_lon, min_lat, max_lon, max_lat))

----------------------------------------------------------------------------
(* The instance after construction, and its operations *)

\* np.nanmin / np.nanmax over the two columns of the cache
dataset_bounds(coords) == envelope(coords)

MaxDistances == {None} \cup {Some(100 * d) : d \in 0..MaxDist}

\* None, every mask of the right shape, and one of the wrong shape
SecondaryMasks ==
    {None} \cup {Some(m) : m \in [1..PointCount -> BOOLEAN]} \cup {Some(<<>>)}

\* between two calls: the caller has taken the last result
Idle == [op |-> "idle"]
NoReturn == [status |-> "none"]

Init ==
    /\ xycoords \in [1..PointCount -> Positions]
    /\ point_count = PointCount
    /\ bounds = dataset_bounds(xycoords)
    /\ kdtree = NoTree
    /\ call = [op |-> "__init__"]
    /\ ret = [status |-> "ok"]
    /\ effects = Effects(1, 0, 0, FALSE, FALSE)
    /\ remembered = None
    /\ netcdf_dataset = Dataset(PointCount, Some(column(xycoords, 1)),
                                Some(column(xycoords, 2)))

GetSpatialMask ==
    /\ call = Idle
    /\ \E b \in Rects, bounds_wkt \in Wkts :
        /\ call' = [op |-> "get_spatial_mask", bounds |-> b, bounds_wkt |-> bounds_wkt]
        /\ ret' = [status |-> "ok", value |-> get_spatial_mask(b, bounds_wkt)]
        /\ effects' = Effects(mask_transforms(bounds_wkt), 1, 0, FALSE, FALSE)
        /\ UNCHANGED <<xycoords, point_count, bounds, kdtree>>

GetReprojectedBoundsOver(Rectangles) ==
    /\ call = Idle
    /\ \E b \in Rectangles, from_wkt \in Wkts, to_wkt \in Wkts :
        /\ call' = [op |-> "get_reprojected_bounds", bounds |-> b,
                    from_wkt |-> from_wkt, to_wkt |-> to_wkt]
        /\ ret' = [status |-> "ok", value |-> get_reprojected_bounds(b, from_wkt, to_wkt)]
        /\ effects' = Effects(reproject_transforms(from_wkt, to_wkt), 0, 0, FALSE, FALSE)
        /\ UNCHANGED <<xycoords, point_count, bounds, kdtree>>

GetReprojectedBounds == GetReprojectedBoundsOver(Rects)

\* the arguments grid_points is called with
Resolutions == {100, 200}
VariableArgs ==
    {NoVariables, OneVariable("mag"), VariableList(<<"mag">>),
     VariableList(<<"mag", "grav">>), OneVariable("depth"),
     VariableList(<<"mag", "depth">>)}
GridBounds ==
    {None} \cup {Some(b) : b \in {<<0, 0, 100, 100>>, <<50, 50, 150, 250>>,
                                  <<100, 100, 0, 0>>}}
Methods == {"linear", "nearest"}
PointSteps == {1, 2}

GridPointsOver(GridResolutions, Variables, NativeBounds, ReprojectedBounds, ResamplingMethods) ==
    /\ call = Idle
    /\ \E grid_resolution \in GridResolutions, variables \in Variables,
          native_grid_bounds \in NativeBounds,
          reprojected_grid_bounds \in ReprojectedBounds,
          resampling_method \in ResamplingMethods, grid_wkt \in Wkts,
          point_step \in PointSteps :
        LET o == grid_points(grid_resolution, variables, native_grid_bounds,
                             reprojected_grid_bounds, resampling_method, grid_wkt,
                             point_step)
        IN  /\ call' = [op |-> "grid_points", grid_resolution |-> grid_resolution,
                        variables |-> variables,
                        native_grid_bounds |-> native_grid_bounds,
                        reprojected_grid_bounds |-> reprojected_grid_bounds,
                        resampling_method |-> resampling_method,
                        grid_wkt |-> grid_wkt, point_step |-> point_step]
            /\ ret' = o.ret
            /\ effects' = o.effects
            /\ UNCHANGED <<xycoords, point_count, bounds, kdtree>>

GridPoints ==
    GridPointsOver(Resolutions, VariableArgs, GridBounds, GridBounds, Methods)

NearestNeighboursOver(Coordinates, CoordinateWkts, PointsRequired) ==
    /\ call = Idle
    /\ \E coordinates \in Coordinates, wkt \in CoordinateWkts,
          points_required \in PointsRequired,
          max_distance \in MaxDistances, secondary_mask \in SecondaryMasks :
        \E o \in nearest_neighbours(coordinates, wkt, points_required,
                                    max_distance, secondary_mask) :
            /\ call' = [op |-> "nearest_neighbours", coordinates |-> coordinates,
                        wkt |-> wkt, points_required |-> points_required,
                        max_distance |-> max_distance,
                        secondary_mask |-> secondary_mask]
            /\ ret' = o.ret
            /\ kdtree' = o.kdtree
            /\ effects' = o.effects
            /\ UNCHANGED <<xycoords, point_count, bounds>>

NearestNeighbours == NearestNeighboursOver(Positions, Wkts, 1..MaxK)

\* The call returns to the caller (once it has a result or has raised).  The
\* instance is single-threaded: a call runs to completion before the next
\* one starts.  A construction that raised has left no instance to call.
Return ==
    /\ call # Idle
    /\ ret # NoReturn
    /\ call.op = "__init__" => ret.status = "ok"
    /\ call' = Idle
    /\ ret' = NoReturn
    /\ effects' = Effects(0, 0, 0, FALSE, FALSE)
    /\ UNCHANGED <<xycoords, point_count, bounds, kdtree>>

Next ==
    \/ GetSpatialMask /\ UNCHANGED <<remembered, netcdf_dataset>>
    \/ GetReprojectedBounds /\ UNCHANGED <<remembered, netcdf_dataset>>
    \/ NearestNeighbours /\ UNCHANGED <<remembered, netcdf_dataset>>
    \/ GridPoints /\ UNCHANGED <<remembered, netcdf_dataset>>
    \/ Return /\ UNCHANGED <<remembered, netcdf_dataset>>

Spec == Init /\ [][Next]_vars

----------------------------------------------------------------------------
(* The same instance with a history of one get_spatial_mask call: any mask  *)
(* call may be remembered, with its arguments, its result and whether the   *)
(* cached tree was built at the time.  The other operations are drawn from *)
(* narrower sets of arguments; every max_distance, secondary_mask, grid     *)
(* CRS and point_step still occurs.                                         *)

RememberMask ==
    \/ remembered' = remembered
    \/ remembered' = Some([bounds |-> call'.bounds, bounds_wkt |-> call'.bounds_wkt,
                           value |-> ret'.value, tree_built |-> kdtree.built])

NextPure ==
    \/ GetSpatialMask /\ RememberMask /\ UNCHANGED netcdf_dataset
    \/ GetReprojectedBoundsOver({<<0, 0, 100, 100>>})
           /\ UNCHANGED <<remembered, netcdf_dataset>>
    \/ NearestNeighboursOver({<<100, 0>>}, {WktNone}, {1})
           /\ UNCHANGED <<remembered, netcdf_dataset>>
    \/ GridPointsOver({100}, {OneVariable("mag")}, {None, Some(<<0, 0, 100, 100>>)},
                      {None}, {"nearest"})
           /\ UNCHANGED <<remembered, netcdf_dataset>>
    \/ Return /\ UNCHANGED <<remembered, netcdf_dataset>>

SpecPure == Init /\ [][NextPure]_vars

----------------------------------------------------------------------------
(* The same instance with every argument of grid_points: also an empty     *)
(* list of variables and a rectangle that holds no point of the dataset.   *)
(* The queries are drawn from a narrower set of arguments; every           *)
(* max_distance and secondary_mask still occurs, so the cached tree is     *)
(* built or not when grid_points is called.                                *)

AllVariableArgs == VariableArgs \cup {VariableList(<<>>)}
AllGridBounds == GridBounds \cup {Some(<<200, 200, 300, 300>>)}

NextGrid ==
    \/ GridPointsOver(Resolutions, AllVariableArgs, AllGridBounds, AllGridBounds,
                      Methods) /\ UNCHANGED <<remembered, netcdf_dataset>>
    \/ NearestNeighboursOver({<<100, 0>>}, {WktNone}, {1})
           /\ UNCHANGED <<remembered, netcdf_dataset>>
    \/ Return /\ UNCHANGED <<remembered, netcdf_dataset>>

SpecGrid == Init /\ [][NextGrid]_vars

----------------------------------------------------------------------------
(* fetch_array, statement by statement: the call, each iteration of the     *)
(* copy loop, and the return.  The position of the call (start_index,       *)
(* cache_array, the slices copied so far, and the number of iterations      *)
(* made, counted modulo 2) is kept in "call".                               *)

\* the element values of a source array, and the sizes of one element
SourceValues == {1, 2}
ItemSizes == {1, 2, 4}
SourceArrays == UNION {[1..n -> SourceValues] : n \in 0..MaxLen}

\* lines 113-120; source_array[0] raises for an array without elements
FetchArray ==
    /\ call = Idle
    /\ \E source_array \in SourceArrays, itemsize \in ItemSizes,
          max_bytes \in 1..MaxBytes :
        LET source_len == Len(source_array)
        IN  /\ call' = [op |-> "fetch_array", source_array |-> source_array,
                        itemsize |-> itemsize, max_bytes |-> max_bytes,
                        start_index |-> 0, cache_array |-> zeros(source_len),
                        slices |-> <<>>, iterations |-> 0]
            /\ ret' = IF source_len = 0 THEN Raised("IndexError") ELSE NoReturn
            /\ effects' = Effects(0, 0, 0, FALSE, FALSE)
            /\ UNCHANGED <<xycoords, point_count, bounds, kdtree>>

\* the call is inside fetch_array and has not returned
Fetching == call.op = "fetch_array" /\ ret = NoReturn

\* The slices copied so far.  An iteration that copies the same empty slice
\* as the one before it is recorded once: every later iteration is that
\* iteration again.
record_slice(slices, array_slice) ==
    IF Len(slices) > 0 /\ slices[Len(slices)] = array_slice
    THEN slices
    ELSE Append(slices, array_slice)

\* lines 121-126: one iteration of the while loop
FetchCopy ==
    /\ Fetching
    /\ call.start_index < Len(call.source_array)
    /\ LET source_len == Len(call.source_array)
           elements == max_elements(call.itemsize, source_len, call.max_bytes)
           end == end_index(call.start_index, elements, source_len)
       IN  call' = [call EXCEPT
                       !.cache_array = copy_slice(call.cache_array, call.source_array,
                                                  call.start_index, end),
                       !.slices = record_slice(call.slices, <<call.start_index, end>>),
                       !.start_index = next_start_index(call.start_index, elements),
                       !.iterations = (call.iterations + 1) % 2]
    /\ UNCHANGED <<xycoords, point_count, bounds, kdtree, ret, effects>>

\* line 128: the loop is over, return cache_array
FetchReturn ==
    /\ Fetching
    /\ call.start_index >= Len(call.source_array)
    /\ ret' = [status |-> "ok", value |-> call.cache_array]
    /\ UNCHANGED <<xycoords, point_count, bounds, kdtree, call, effects>>

NextFetch ==
    \/ FetchArray /\ UNCHANGED <<remembered, netcdf_dataset>>
    \/ FetchCopy /\ UNCHANGED <<remembered, netcdf_dataset>>
    \/ FetchReturn /\ UNCHANGED <<remembered, netcdf_dataset>>
    \/ Return /\ UNCHANGED <<remembered, netcdf_dataset>>

SpecFetch == Init /\ [][NextFetch]_vars

\* fetch_array runs on the calling thread: once called, its loop goes on
\* with its next iteration, and returns when the loop is over
SpecFetchLive ==
    /\ Init
    /\ [][NextFetch]_vars
    /\ WF_vars(FetchCopy /\ UNCHANGED <<remembered, netcdf_dataset>>)
    /\ WF_vars(FetchReturn /\ UNCHANGED <<remembered, netcdf_dataset>>)

----------------------------------------------------------------------------
(* Construction.  The dataset exists before the instance does; __init__    *)
(* runs once, over it.                                                     *)

\* the ordinates of a dataset: numbers, and not-a-number
Ordinates == {0, 100, NaN}

\* every dataset of up to PointCount points, with or without its longitude
\* and latitude variables
Datasets(Values) ==
    UNION {{Dataset(n, longitude, latitude) :
                longitude \in {None} \cup {Some(a) : a \in [1..n -> Values]},
                latitude \in {None} \cup {Some(a) : a \in [1..n -> Values]}} :
           n \in 0..PointCount}

\* the datasets of PointCount points whose ordinates are all numbers
CompleteDatasets ==
    {Dataset(PointCount, Some(longitude), Some(latitude)) :
        longitude \in [1..PointCount -> {0, 100}],
        latitude \in [1..PointCount -> {0, 100}]}

New == [op |-> "new"]

InitOver(NetCDFDatasets) ==
    /\ netcdf_dataset \in NetCDFDatasets
    /\ xycoords = Unset
    /\ point_count = 0
    /\ bounds = Unset
    /\ kdtree = NoTree
    /\ call = New
    /\ ret = NoReturn
    /\ effects = Effects(0, 0, 0, FALSE, FALSE)
    /\ remembered = None

\* __init__, lines 45-96
Construct ==
    /\ call = New
    /\ \E itemsize \in ItemSizes, max_bytes \in 1..MaxBytes :
        LET o == construct(netcdf_dataset, itemsize, max_bytes)
        IN  /\ call' = [op |-> "__init__", itemsize |-> itemsize,
                        max_bytes |-> max_bytes]
            /\ ret' = o.ret
            /\ xycoords' = o.xycoords
            /\ point_count' = o.point_count
            /\ bounds' = o.bounds
            /\ kdtree' = NoTree
            /\ effects' = o.effects
            /\ UNCHANGED netcdf_dataset

NextConstruct ==
    \/ Construct /\ UNCHANGED remembered
    \/ Return /\ UNCHANGED <<remembered, netcdf_dataset>>

SpecConstruct == InitOver(Datasets(Ordinates)) /\ [][NextConstruct]_vars

\* construction, and then any sequence of mask, bounds, query and grid
\* operations on the instance
NextLife ==
    \/ Construct /\ UNCHANGED remembered
    \/ GetSpatialMask /\ UNCHANGED <<remembered, netcdf_dataset>>
    \/ GetReprojectedBoundsOver({<<0, 0, 100, 100>>})
           /\ UNCHANGED <<remembered, netcdf_dataset>>
    \/ NearestNeighboursOver({<<100, 0>>}, {WktNone, OtherWkt}, {1})
           /\ UNCHANGED <<remembered, netcdf_dataset>>
    \/ GridPointsOver({100}, {OneVariable("mag"), VariableList(<<"mag", "depth">>)},
                      {None, Some(<<0, 0, 100, 100>>)}, {None}, Methods)
           /\ UNCHANGED <<remembered, netcdf_dataset>>
    \/ Return /\ UNCHANGED <<remembered, netcdf_dataset>>

SpecLife == InitOver(CompleteDatasets) /\ [][NextLife]_vars

----------------------------------------------------------------------------
(* Properties *)

\* the last call was nearest_neighbours with a secondary_mask of the right shape
QueryCalled ==
    /\ call.op = "nearest_neighbours"
    /\ (call.secondary_mask # None => Len(Val(call.secondary_mask)) = point_count)

\* the query coordinate in the native CRS
QueryPoint ==
    IF call.wkt = WktNone THEN call.coordinates
    ELSE transform_point(call.coordinates, call.wkt, NativeWkt)

\* whether the query's secondary_mask selects dataset point i (0-based)
Selected(i) == call.secondary_mask = None \/ Val(call.secondary_mask)[i + 1]

\* the entries of the result that stand for a point: a missing neighbour is
\* reported with distance inf
Found == {j \in 1..Len(ret.distances) : ret.distances[j] # Inf}

(* C1: a query with max_distance = d, for any d >= 0 (0 included) and any   *)
(* points_required, returns only distances <= d.                            *)
C1_DistancesWithinMaxDistance ==
    (QueryCalled /\ call.max_distance # None /\ ret.status = "ok") =>
        \A j \in 1..Len(ret.distances) :
            ret.distances[j] <= Val(call.max_distance) * Val(call.max_distance)

(* C2: a query with max_distance = d for which no candidate point lies      *)
(* within distance d of the native-CRS query coordinate returns empty       *)
(* distances and indices, and raises nothing.  Stated for d > 0, where the  *)
(* code searches within a distance at all.                                  *)
C2_NothingWithinDistanceGivesEmpty ==
    (/\ QueryCalled
     /\ max_distance_given(call.max_distance)
     /\ \A i \in 0..(point_count - 1) :
            Selected(i) =>
                dist2(xycoords[i + 1], QueryPoint)
                    > Val(call.max_distance) * Val(call.max_distance))
    => (ret.status = "ok" /\ ret.distances = <<>> /\ ret.indices = <<>>)

(* C3: each point a query with a (non-zero) max_distance returns is a       *)
(* dataset index i such that point i lies in the search window, the         *)
(* secondary_mask selects i, and the distance returned with it is the       *)
(* distance from the query coordinate to coordinates[i].                    *)
C3_BoundedQueryReturnsDatasetIndices ==
    (QueryCalled /\ max_distance_given(call.max_distance) /\ ret.status = "ok") =>
        \A j \in Found :
            LET i == ret.indices[j]
            IN  /\ i \in 0..(point_count - 1)
                /\ in_bounds(search_window(QueryPoint, Val(call.max_distance)),
                             xycoords[i + 1])
                /\ Selected(i)
                /\ ret.distances[j] = dist2(xycoords[i + 1], QueryPoint)

(* C4: every point a query with no max_distance and a custom secondary_mask *)
(* returns is a dataset point that this call's secondary_mask selects,      *)
(* whatever queries ran before.                                             *)
C4_UnboundedQueryHonoursMask ==
    (/\ QueryCalled
     /\ call.max_distance = None
     /\ call.secondary_mask # None
     /\ ret.status = "ok")
    => \A j \in Found :
           ret.indices[j] \in 0..(point_count - 1) /\ Selected(ret.indices[j])

(* C5: the cached KD-tree is unset or built over all point_count points of  *)
(* the coordinate cache, local index j of the tree being dataset point j.   *)
C5_CachedTreeCoversAllPoints ==
    kdtree.built => kdtree.data = xycoords

(* C6: the cached KD-tree is built at most once: once it is set, no later   *)
(* operation builds it again or replaces it.                                *)
C6_CachedTreeBuiltAtMostOnce ==
    [][kdtree.built => (kdtree' = kdtree /\ ~effects'.cached_built)]_vars

\* a query without max_distance has just been answered from a tree that an
\* earlier query built
C6_Witness ==
    /\ QueryCalled
    /\ ~max_distance_given(call.max_distance)
    /\ ret.status = "ok"
    /\ kdtree.built
    /\ ~effects.cached_built

(* C7: get_spatial_mask returns point_count booleans, element i true        *)
(* exactly when min_x <= x_i <= max_x and min_y <= y_i <= max_y for point   *)
(* i's coordinate (transformed into bounds_wkt when given): the rectangle   *)
(* is closed, its edges and corners included.                               *)
C7_MaskIsClosedRectangle ==
    call.op = "get_spatial_mask" =>
        /\ ret.status = "ok"
        /\ Len(ret.value) = point_count
        /\ \A i \in 1..point_count :
               LET c == IF call.bounds_wkt = WktNone THEN xycoords[i]
                        ELSE transform_point(xycoords[i], NativeWkt, call.bounds_wkt)
                   x_inside == call.bounds[1] <= c[1] /\ c[1] <= call.bounds[3]
                   y_inside == call.bounds[2] <= c[2] /\ c[2] <= call.bounds[4]
               IN  ret.value[i] <=> (x_inside /\ y_inside)

\* a mask in another CRS that includes a point exactly on the rectangle's
\* (max_x, max_y) corner and excludes another point
C7_Witness ==
    /\ call.op = "get_spatial_mask"
    /\ call.bounds_wkt = OtherWkt
    /\ \E i, j \in 1..point_count :
           /\ transform_point(xycoords[i], NativeWkt, OtherWkt)
                  = <<call.bounds[3], call.bounds[4]>>
           /\ ret.value[i]
           /\ ~ret.value[j]

\* the last call repeats the remembered get_spatial_mask call
MaskCallRepeated ==
    /\ call.op = "get_spatial_mask"
    /\ remembered # None
    /\ call.bounds = Val(remembered).bounds
    /\ call.bounds_wkt = Val(remembered).bounds_wkt

(* C8: get_spatial_mask is pure: a call with the arguments of an earlier    *)
(* call returns what that call returned, whatever ran in between, and a     *)
(* mask call leaves the coordinate cache, the bounds and the cached tree    *)
(* unchanged.                                                               *)
C8_MaskIsPure ==
    [][call'.op = "get_spatial_mask" =>
          /\ UNCHANGED <<xycoords, point_count, bounds, kdtree>>
          /\ (MaskCallRepeated' => ret'.value = Val(remembered').value)]_vars

\* a mask call is repeated after a query has built the cached tree in
\* between
C8_Witness ==
    /\ MaskCallRepeated
    /\ ~Val(remembered).tree_built
    /\ kdtree.built
    /\ \E i \in 1..point_count : ret.value[i]

\* the last call was get_reprojected_bounds with nothing to reproject
NothingToReproject ==
    /\ call.op = "get_reprojected_bounds"
    /\ (call.from_wkt = call.to_wkt \/ call.from_wkt = WktNone \/ call.to_wkt = WktNone)

(* C9: get_reprojected_bounds returns bounds unchanged, with no call to     *)
(* transform_coords, when from_wkt = to_wkt or either is None.              *)
C9_ReprojectionIdentity ==
    NothingToReproject =>
        (ret.status = "ok" /\ ret.value = call.bounds /\ effects.transforms = 0)

\* both CRSs are set and equal
C9_Witness ==
    /\ NothingToReproject
    /\ call.from_wkt = OtherWkt
    /\ call.to_wkt = OtherWkt
    /\ ret.value = call.bounds

\* the four corners of the last call's rectangle, transformed
TransformedCorners ==
    {transform_point(c, call.from_wkt, call.to_wkt) :
        c \in {<<call.bounds[1], call.bounds[2]>>, <<call.bounds[3], call.bounds[2]>>,
               <<call.bounds[3], call.bounds[4]>>, <<call.bounds[1], call.bounds[4]>>}}

\* the last call was get_reprojected_bounds between two different CRSs
Reprojected ==
    /\ call.op = "get_reprojected_bounds"
    /\ call.from_wkt # WktNone
    /\ call.to_wkt # WktNone
    /\ call.from_wkt # call.to_wkt

(* C10: between two different CRSs get_reprojected_bounds returns the       *)
(* axis-aligned envelope of all four transformed corners: min_x <= max_x,   *)
(* min_y <= max_y, every transformed corner is inside, and every edge       *)
(* passes through one of them.                                              *)
C10_ReprojectedBoundsAreEnvelope ==
    Reprojected =>
        /\ ret.status = "ok"
        /\ ret.value[1] <= ret.value[3]
        /\ ret.value[2] <= ret.value[4]
        /\ \A c \in TransformedCorners :
               /\ ret.value[1] <= c[1] /\ c[1] <= ret.value[3]
               /\ ret.value[2] <= c[2] /\ c[2] <= ret.value[4]
        /\ \A k \in 1..4 : \E c \in TransformedCorners :
               ret.value[k] = c[IF k \in {1, 3} THEN 1 ELSE 2]

\* a reprojection in which the envelope's min_x comes from neither of the
\* two diagonal corners
C10_Witness ==
    /\ Reprojected
    /\ ret.value[1] < transform_point(<<call.bounds[1], call.bounds[2]>>,
                                      call.from_wkt, call.to_wkt)[1]
    /\ ret.value[1] < transform_point(<<call.bounds[3], call.bounds[4]>>,
                                      call.from_wkt, call.to_wkt)[1]

----------------------------------------------------------------------------
(* fetch_array *)

\* fetch_array has returned an array
FetchReturned == call.op = "fetch_array" /\ ret.status = "ok"

\* the slices copied so far follow one another from index 0 without gap or
\* overlap, and none is empty
SlicesContiguous(slices) ==
    /\ \A j \in 1..Len(slices) : slices[j][1] < slices[j][2]
    /\ Len(slices) > 0 => slices[1][1] = 0
    /\ \A j \in 1..(Len(slices) - 1) : slices[j + 1][1] = slices[j][2]

(* C11: when fetch_array returns, the array it returns has the length N of *)
(* the source and the source's element at every index, and the slices it   *)
(* copied are contiguous, do not overlap and cover exactly 0..N-1.         *)
C11_FetchCopiesEveryElementInOrder ==
    FetchReturned =>
        LET source_array == call.source_array
            N == Len(source_array)
        IN  /\ Len(ret.value) = N
            /\ \A i \in 1..N : ret.value[i] = source_array[i]
            /\ SlicesContiguous(call.slices)
            /\ Len(call.slices) > 0
            /\ call.slices[Len(call.slices)][2] = N

\* a copy made in three slices, the last one shorter than the others
C11_Witness ==
    /\ FetchReturned
    /\ Len(call.slices) = 3
    /\ call.slices[3][2] - call.slices[3][1] < call.slices[1][2] - call.slices[1][1]
    /\ ret.value = call.source_array
    /\ \E i, j \in 1..Len(ret.value) : ret.value[i] # ret.value[j]

(* C12: every slice fetch_array transfers is no larger than max_bytes: its *)
(* element count times the element size is <= max_bytes (stated here for   *)
(* the calls in which one element fits into max_bytes).                    *)
C12_SlicesWithinMaxBytes ==
    (call.op = "fetch_array" /\ call.itemsize <= call.max_bytes) =>
        \A j \in 1..Len(call.slices) :
            (call.slices[j][2] - call.slices[j][1]) * call.itemsize <= call.max_bytes

----------------------------------------------------------------------------
(* grid_points *)

\* grid_points has returned its grids
GridReturned == call.op = "grid_points" /\ ret.status = "ok"

\* the requested rectangle in the grid CRS, before it is snapped
RequestedRectangle ==
    IF call.native_grid_bounds # None
    THEN get_reprojected_bounds(Val(call.native_grid_bounds), NativeWkt, call.grid_wkt)
    ELSE IF call.reprojected_grid_bounds # None
    THEN Val(call.reprojected_grid_bounds)
    ELSE bounds

WellFormed(b) == b[1] <= b[3] /\ b[2] <= b[4]

\* the names the returned grids belong to, and the grid returned for a name
ReturnedNames ==
    IF ret.single THEN {call.variables.names[1]} ELSE DOMAIN ret.grids

GridFor(n) == IF ret.single THEN ret.grids ELSE ret.grids[n]

ReturnedGrid == GridFor(CHOOSE n \in ReturnedNames : TRUE)

\* the rectangle spanned by the pixel centres of the returned mesh
SnappedRectangle ==
    LET g == ReturnedGrid
    IN  <<g.grid_x[1], g.grid_y[Len(g.grid_y)], g.grid_x[Len(g.grid_x)], g.grid_y[1]>>

(* C13: a grid_points call given both native_grid_bounds and               *)
(* reprojected_grid_bounds raises, having made no transform call, computed *)
(* no mask and interpolated nothing, and leaves the instance as it was.    *)
C13_BothBoundsRaiseBeforeAnyWork ==
    [][(/\ call'.op = "grid_points"
        /\ call = Idle
        /\ call'.native_grid_bounds # None
        /\ call'.reprojected_grid_bounds # None)
       => (/\ ret'.status = "AssertionError"
           /\ effects' = Effects(0, 0, 0, FALSE, FALSE)
           /\ UNCHANGED <<xycoords, point_count, bounds, kdtree>>)]_vars

\* both bounds given to an instance whose cached tree has been built
C13_Witness ==
    /\ call.op = "grid_points"
    /\ call.native_grid_bounds # None
    /\ call.reprojected_grid_bounds # None
    /\ ret.status = "AssertionError"
    /\ kdtree.built

(* C14: the snapped pixel-centre rectangle has its four edges on whole     *)
(* multiples of grid_resolution and encloses the requested rectangle.      *)
C14_SnappedRectangleEnclosesRequest ==
    (GridReturned /\ WellFormed(RequestedRectangle)) =>
        LET requested == RequestedRectangle
            snapped == SnappedRectangle
        IN  /\ \A k \in 1..4 : snapped[k] % call.grid_resolution = 0
            /\ snapped[1] <= requested[1]
            /\ snapped[2] <= requested[2]
            /\ snapped[3] >= requested[3]
            /\ snapped[4] >= requested[4]

\* the geotransform applied to the pixel index bounds: columns 0..ncols and
\* rows 0..nrows
GeotransformEnvelope ==
    LET gt == ret.geotransform
        ncols == Len(ReturnedGrid.grid_x)
        nrows == Len(ReturnedGrid.grid_y)
    IN  envelope(<<<<gt[1], gt[4]>>,
                   <<gt[1] + ncols * gt[2] + nrows * gt[3],
                     gt[4] + ncols * gt[5] + nrows * gt[6]>>>>)

(* C15: the envelope of the returned geotransform applied to the grid's    *)
(* pixel index bounds contains the requested, pre-snap rectangle.          *)
C15_GridCoversRequest ==
    (GridReturned /\ WellFormed(RequestedRectangle)) =>
        LET requested == RequestedRectangle
            covered == GeotransformEnvelope
        IN  /\ covered[1] <= requested[1]
            /\ covered[2] <= requested[2]
            /\ covered[3] >= requested[3]
            /\ covered[4] >= requested[4]

(* C16: the rectangle used to select points is the snapped rectangle grown *)
(* by 2% of its width on the min_x and max_x sides and by 2% of its height *)
(* on the min_y and max_y sides.                                           *)
C16_ExpandedByTwoPercentPerAxis ==
    (GridReturned /\ WellFormed(RequestedRectangle)) =>
        LET snapped == SnappedRectangle
            W == snapped[3] - snapped[1]
            H == snapped[4] - snapped[2]
        IN  expanded_grid_bounds(snapped) =
                <<snapped[1] - W \div 50, snapped[2] - H \div 50,
                  snapped[3] + W \div 50, snapped[4] + H \div 50>>

\* the points whose raw index is a multiple of point_step and whose cached
\* coordinate lies in the expanded rectangle reprojected to the native CRS
ExpectedSubsetMask ==
    LET pcb == pixel_centre_bounds(RequestedRectangle, call.grid_resolution)
        inside == get_spatial_mask(
                      get_reprojected_bounds(expanded_grid_bounds(pcb),
                                             call.grid_wkt, NativeWkt),
                      WktNone)
    IN  [i \in 1..point_count |-> inside[i] /\ (i - 1) % call.point_step = 0]

(* C17: the points passed to interpolation are exactly those whose raw     *)
(* index i has i mod point_step = 0 and whose cached coordinate is inside  *)
(* the expanded rectangle reprojected to the native CRS.                   *)
C17_InterpolatedPointsAreTheSubset ==
    GridReturned =>
        \A n \in ReturnedNames :
            /\ GridFor(n).values = take(variable_values(n), where(ExpectedSubsetMask))
            /\ Len(GridFor(n).points) = Len(where(ExpectedSubsetMask))

(* C18: the returned geotransform is [snapped min_x - r/2, r, 0,           *)
(* snapped max_y + r/2, 0, -r], and applied to (col + 1/2, row + 1/2) it   *)
(* gives the mesh coordinate of pixel (row, col); row 0 is at the snapped  *)
(* max_y and y decreases by r per row.                                     *)
C18_GeotransformMatchesMesh ==
    GridReturned =>
        LET r == call.grid_resolution
            pcb == pixel_centre_bounds(RequestedRectangle, r)
            gt == ret.geotransform
            g == ReturnedGrid
        IN  /\ gt = <<pcb[1] - r \div 2, r, 0, pcb[4] + r \div 2, 0, 0 - r>>
            /\ \A row \in 0..(Len(g.grid_y) - 1), col \in 0..(Len(g.grid_x) - 1) :
                /\ gt[1] + (col * gt[2] + gt[2] \div 2) + (row * gt[3] + gt[3] \div 2)
                       = g.grid_x[col + 1]
                /\ gt[4] + (col * gt[5] + gt[5] \div 2) + (row * gt[6] + gt[6] \div 2)
                       = g.grid_y[row + 1]
                /\ g.grid_y[row + 1] = pcb[4] - row * r

\* a grid of three rows and two columns in a CRS other than the native one
C18_Witness ==
    /\ GridReturned
    /\ Len(ReturnedGrid.grid_y) = 3
    /\ Len(ReturnedGrid.grid_x) = 2
    /\ call.grid_wkt = OtherWkt

\* the values a grid was interpolated from are values of variable n
InterpolatedFrom(g, n) ==
    \E mask \in [1..point_count -> BOOLEAN] :
        g.values = take(variable_values(n), where(mask))

(* C19: given one variable name as a string grid_points returns that       *)
(* variable's grid itself; given a list of names it returns a mapping      *)
(* whose keys are exactly the requested names, each mapped to the grid     *)
(* interpolated from that variable's values.                               *)
C19_SingleGridOrMappingOfRequestedNames ==
    GridReturned =>
        LET names == call.variables.names
            requested == {names[i] : i \in 1..Len(names)}
        IN  /\ call.variables.type = "str" =>
                   (ret.single /\ InterpolatedFrom(ret.grids, names[1]))
            /\ call.variables.type = "list" =>
                   /\ ~ret.single
                   /\ DOMAIN ret.grids = requested
                   /\ \A n \in requested : InterpolatedFrom(ret.grids[n], n)

\* the point-subset mask of the call: the spatial mask of the expanded
\* rectangle and the point_step decimation
PointSubsetMask ==
    LET pcb == pixel_centre_bounds(RequestedRectangle, call.grid_resolution)
    IN  logical_and(
            get_spatial_mask(
                get_reprojected_bounds(expanded_grid_bounds(pcb),
                                       call.grid_wkt, NativeWkt),
                WktNone),
            decimation_mask(call.point_step))

(* C20: when no point survives the point-subset mask, grid_points raises   *)
(* no error and returns its grid(s) (stated here for the default method    *)
(* "linear", the native CRS, variables of the dataset and a rectangle with *)
(* min <= max).                                                            *)
C20_NoSurvivingPointIsNotAnError ==
    (/\ call.op = "grid_points"
     /\ ~both_bounds_given(call.native_grid_bounds, call.reprojected_grid_bounds)
     /\ call.resampling_method = "linear"
     /\ call.grid_wkt = WktNone
     /\ \A i \in 1..Len(call.variables.names) :
            call.variables.names[i] \in {"mag", "grav"}
     /\ WellFormed(RequestedRectangle)
     /\ where(PointSubsetMask) = <<>>)
    => ret.status = "ok"

----------------------------------------------------------------------------
(* __init__ *)

\* __init__ has returned an instance
ConstructionCompleted == call.op = "__init__" /\ ret.status = "ok"

\* the ordinates of the dataset on axis k (1: longitude, 2: latitude) that
\* are numbers
DatasetOrdinates(k) ==
    LET a == IF k = 1 THEN Val(netcdf_dataset.longitude)
             ELSE Val(netcdf_dataset.latitude)
    IN  {a[i] : i \in 1..Len(a)} \ {NaN}

(* C21: at construction bounds = (min_x, min_y, max_x, max_y), each the     *)
(* minimum or maximum of its axis over the ordinates that are numbers, so   *)
(* that a point with a missing ordinate leaves the bounds of the valid      *)
(* ordinates alone and min <= max on both axes (for an axis that has a      *)
(* valid ordinate); native_bbox lists the four corners of that rectangle.   *)
C21_BoundsIgnoreNaN ==
    ConstructionCompleted =>
        /\ \A k \in {1, 2} :
               DatasetOrdinates(k) # {} =>
                   /\ bounds[k] \in DatasetOrdinates(k)
                   /\ bounds[k + 2] \in DatasetOrdinates(k)
                   /\ \A v \in DatasetOrdinates(k) : bounds[k] <= v /\ v <= bounds[k + 2]
                   /\ bounds[k] <= bounds[k + 2]
        /\ ret.native_bbox = <<<<bounds[1], bounds[2]>>, <<bounds[3], bounds[2]>>,
                               <<bounds[3], bounds[4]>>, <<bounds[1], bounds[4]>>>>

\* a point without longitude whose latitude is the largest of the dataset
C21_Witness ==
    /\ ConstructionCompleted
    /\ \E i \in 1..point_count :
           /\ isnan(xycoords[i][1])
           /\ ~isnan(xycoords[i][2])
           /\ bounds[4] = xycoords[i][2]
    /\ ~isnan(bounds[1])
    /\ bounds[2] < bounds[4]

\* there is an instance: construction has completed
InstanceInUse == call # New /\ (call.op = "__init__" => ret.status = "ok")

(* C22: in every state after construction, through any sequence of mask,   *)
(* bounds, query and grid operations, the coordinate cache has point_count *)
(* entries, entry i being (longitude[i], latitude[i]), and no operation    *)
(* changes the cache, point_count or bounds.                               *)
C22_CacheAlignedAndImmutable ==
    /\ [](InstanceInUse =>
            /\ Len(xycoords) = point_count
            /\ point_count = netcdf_dataset.point
            /\ \A i \in 1..point_count :
                   xycoords[i] = <<Val(netcdf_dataset.longitude)[i],
                                   Val(netcdf_dataset.latitude)[i]>>)
    /\ [][InstanceInUse => UNCHANGED <<xycoords, point_count, bounds>>]_vars

\* grids have been returned by an instance whose points differ, after a
\* query has built the cached tree
C22_Witness ==
    /\ call.op = "grid_points"
    /\ ret.status = "ok"
    /\ kdtree.built
    /\ xycoords[1] # xycoords[2]
    /\ xycoords[1][1] # xycoords[1][2]

\* the dataset lacks a coordinate variable, or has no point
DatasetUnusable ==
    \/ netcdf_dataset.longitude = None
    \/ netcdf_dataset.latitude = None
    \/ netcdf_dataset.point = 0

(* C23: construction over a dataset without longitude, without latitude or *)
(* with a point dimension of length zero never completes with an instance: *)
(* it ends in an error (or, where fetch_array does not return, not at all). *)
C23_UnusableDatasetGivesNoInstance ==
    DatasetUnusable =>
        /\ call = New \/ (call.op = "__init__" /\ ret.status # "ok")
        /\ xycoords = Unset
        /\ (call.op = "__init__" /\ netcdf_dataset.longitude = None)
               => ret.status = "KeyError"
        /\ (call.op = "__init__" /\ netcdf_dataset.longitude # None
               /\ netcdf_dataset.point = 0) => ret.status = "IndexError"

\* the constructor has raised on a dataset with both variables and no point
C23_Witness ==
    /\ call.op = "__init__"
    /\ netcdf_dataset.point = 0
    /\ netcdf_dataset.longitude # None
    /\ netcdf_dataset.latitude # None
    /\ ret.status = "IndexError"

(* C24: a grid_points call given a name that is no variable of the dataset, *)
(* alone or anywhere in a list, raises, interpolates and returns no grid,   *)
(* not even for the valid names of the list, and leaves the instance as it  *)
(* was.                                                                     *)
C24_UnknownVariableRaises ==
    [][(/\ call'.op = "grid_points"
        /\ call = Idle
        /\ \E i \in 1..Len(call'.variables.names) :
               call'.variables.names[i] \notin {"mag", "grav"})
       => (/\ ret'.status \in {"KeyError", "AssertionError"}
           /\ effects'.interpolations = 0
           /\ UNCHANGED <<xycoords, point_count, bounds, kdtree>>)]_vars

\* a list with a valid name before the unknown one, given to an instance
\* whose cached tree has been built
C24_Witness ==
    /\ call.op = "grid_points"
    /\ call.variables = VariableList(<<"mag", "depth">>)
    /\ ret.status = "KeyError"
    /\ kdtree.built

(* C25: fetch_array terminates for every source of N >= 1 elements, every   *)
(* element size and every max_bytes >= 1, also with max_bytes smaller than  *)
(* one element: a call that has entered the copy loop returns.              *)
C25_FetchTerminates == Fetching ~> (ret # NoReturn)

----------------------------------------------------------------------------
(* nearest_neighbours and the cached tree; transform calls *)

(* C26: a nearest_neighbours query with a non-zero max_distance builds no   *)
(* cached tree and leaves self.kdtree as it was before the call: unset if   *)
(* it was unset, the same tree if it was set.                               *)
C26_BoundedQueryLeavesCachedTree ==
    [][(/\ call'.op = "nearest_neighbours"
        /\ call = Idle
        /\ call'.max_distance # None
        /\ Val(call'.max_distance) # 0)
       => (kdtree' = kdtree /\ ~effects'.cached_built)]_vars

\* a bounded query has built its ephemeral tree on an instance whose cached
\* tree an earlier query had built over a part of the points
C26_Witness ==
    /\ QueryCalled
    /\ call.max_distance # None
    /\ Val(call.max_distance) # 0
    /\ ret.status = "ok"
    /\ effects.ephemeral_built
    /\ kdtree.built
    /\ Len(kdtree.data) < point_count

\* dataset point i (0-based) lies in the square search window of the query
InSearchWindow(i) ==
    in_bounds(search_window(QueryPoint, Val(call.max_distance)), xycoords[i + 1])

(* C27: a query with max_distance given, when no point is both inside the   *)
(* square search window and selected by secondary_mask, returns a pair of   *)
(* empty sequences, raises no error and builds no index.                    *)
C27_EmptyWindowGivesEmptyResult ==
    (/\ QueryCalled
     /\ call.max_distance # None
     /\ \A i \in 0..(point_count - 1) : ~(InSearchWindow(i) /\ Selected(i)))
    => (/\ ret.status = "ok"
        /\ ret.distances = <<>>
        /\ ret.indices = <<>>
        /\ ~effects.ephemeral_built
        /\ ~effects.cached_built)

(* C28: nearest_neighbours and grid_points issue a transform call only when *)
(* the CRS they are given is set and differs from the native CRS: with no   *)
(* CRS, or with the native CRS, no transform call is issued.                *)
C28_NoTransformForNativeCRS ==
    /\ (call.op = "nearest_neighbours" /\ call.wkt \in {WktNone, NativeWkt})
           => effects.transforms = 0
    /\ (call.op = "grid_points" /\ call.grid_wkt \in {WktNone, NativeWkt})
           => effects.transforms = 0
====
